---- MODULE Spec2Model ----
(***************************************************************************)
(* Arc-length queries of SplineLibrary (spline_library/arclength.h):       *)
(* ArcLength::solveLength, ArcLength::partition, ArcLength::partitionN and *)
(* the helper __ArcLengthSolvePrivate::solveSegment.                       *)
(*                                                                         *)
(* floating_t is modelled by exact rationals <<num, den>> with den > 0,    *)
(* plus the value NaN (<<0, 0>>) that 0/0 produces.  Rounding is not       *)
(* modelled: the root finder returns the exact root of its objective.      *)
(* The Spline is a curve whose arc length grows linearly with the local    *)
(* fraction inside each segment; segment lengths and knot spacings vary.   *)
(* Indices are 0-based as in the source.                                   *)
(***************************************************************************)
EXTENDS Integers, Sequences, FiniteSets, TLC

\* ------------------------------------------------------------------ bounds
MaxSegs == 3      \* a spline has 1..MaxSegs segments
MaxSegLen == 2    \* a segment's arc length is one of 1..MaxSegLen
MaxN == 3         \* partitionN is called with n in 1..MaxN
Grid == 2         \* inputs lie on multiples of 1/Grid

\* knot spacings (segmentT(i+1) - segmentT(i)) of the even and of the odd
\* segments: uniform knots, and two non-uniform knot vectors
KnotStyles == {<<1, 1>>, <<1, 2>>, <<2, 1>>}

VARIABLES
    segLens,    \* the spline: arc length of each segment, [0..count-1 -> Nat]
    knots,      \* the spline: segmentT, [0..count -> Nat]
    call,       \* the entry point running (or last run) and its arguments
    frame,      \* the locals of that call, its position (pc) and return value
    solveCalls, \* number of solveSegment calls made by the call so far
    lastSolve   \* arguments of the most recent solveSegment call of the call

vars == <<segLens, knots, call, frame, solveCalls, lastSolve>>

\* ------------------------------------------------------- floating_t values
Zero == <<0, 1>>
One == <<1, 1>>
NaN == <<0, 0>>

IsNaN(x) == x[2] = 0

Abs(n) == IF n < 0 THEN -n ELSE n

RECURSIVE GCD(_, _)
GCD(m, n) == IF n = 0 THEN m ELSE GCD(n, m % n)

\* the rational n/d, d > 0, in lowest terms
Norm(n, d) ==
    LET g == GCD(Abs(n), d)
    IN  <<n \div g, d \div g>>

FromInt(n) == <<n, 1>>

RAdd(x, y) ==
    IF IsNaN(x) \/ IsNaN(y) THEN NaN
    ELSE Norm(x[1] * y[2] + y[1] * x[2], x[2] * y[2])

RSub(x, y) ==
    IF IsNaN(x) \/ IsNaN(y) THEN NaN
    ELSE Norm(x[1] * y[2] - y[1] * x[2], x[2] * y[2])

RMul(x, y) ==
    IF IsNaN(x) \/ IsNaN(y) THEN NaN
    ELSE Norm(x[1] * y[1], x[2] * y[2])

\* 0/0 is NaN.  (x/0 with x # 0 is an infinity in the source; no call on a
\* well-formed curve divides a non-zero value by zero, and it is folded into
\* NaN here.)
RDiv(x, y) ==
    IF IsNaN(x) \/ IsNaN(y) \/ y[1] = 0 THEN NaN
    ELSE IF y[1] > 0 THEN Norm(x[1] * y[2], x[2] * y[1])
    ELSE Norm(-(x[1] * y[2]), x[2] * (-y[1]))

\* comparisons: every comparison with a NaN is false
RLt(x, y) == ~IsNaN(x) /\ ~IsNaN(y) /\ x[1] * y[2] < y[1] * x[2]
RLe(x, y) == ~IsNaN(x) /\ ~IsNaN(y) /\ x[1] * y[2] <= y[1] * x[2]
REq(x, y) == ~IsNaN(x) /\ ~IsNaN(y) /\ x[1] * y[2] = y[1] * x[2]

\* size_t(x) of a non-negative value: truncation
Trunc(x) == x[1] \div x[2]

\* ------------------------------------------------- the Spline collaborator
segmentCount == Cardinality(DOMAIN segLens)

segmentT(i) == FromInt(knots[i])

getMaxT == segmentT(segmentCount)

\* index of the segment holding t; maxT (and beyond) belongs to the last one
segmentForT(t) ==
    IF RLt(t, Zero) THEN 0
    ELSE LET holds == {i \in 0..(segmentCount - 1) :
                          RLe(segmentT(i), t) /\ RLt(t, segmentT(i + 1))}
         IN  IF holds = {} THEN segmentCount - 1
             ELSE CHOOSE i \in holds : TRUE

\* arc length of segment i between two local fractions
segmentArcLength(i, fromPercent, toPercent) ==
    RMul(FromInt(segLens[i]), RSub(toPercent, fromPercent))

\* the local fraction b of segment i with segmentArcLength(i, aPercent, b) = len
segmentFractionAt(i, aPercent, len) ==
    RAdd(aPercent, RDiv(len, FromInt(segLens[i])))

\* ------------------------------------------------------------ solveSegment
\* std::numeric_limits<floating_t>::digits, for floating_t = double
MantissaDigits == 53

\* line 37: int(std::numeric_limits<floating_t>::digits * 0.5)
HalleyDigits == (MantissaDigits * 5) \div 10

\* boost::math::tools::halley_iterate(f, guess, min, max, digits) on
\* solveFunction: a NaN guess yields NaN; otherwise the root of
\* segmentArcLength(segmentIndex, aPercent, b) - desiredLength, kept inside the
\* bracket [min, max].  digits is the precision asked for, in bits; the root
\* is modelled as exact.
halley_iterate(segmentIndex, aPercent, desiredLength, guess, min, max, digits) ==
    IF IsNaN(guess) \/ segmentIndex \notin DOMAIN segLens THEN NaN
    ELSE LET root == segmentFractionAt(segmentIndex, aPercent, desiredLength)
         IN  IF IsNaN(root) THEN NaN
             ELSE IF RLt(root, min) THEN min
             ELSE IF RLt(max, root) THEN max
             ELSE root

\* lines 15-16 and 37: the arguments solveSegment hands to halley_iterate.
\* Five arguments are passed; the optional sixth, max_iter (the iteration
\* cap), is not: max_iter is the set of caps passed, which is empty.
HalleyCall(desiredLength, maxLength, aPercent) ==
    LET desiredPercent == RDiv(desiredLength, maxLength)
        bGuess == RAdd(aPercent, RMul(desiredPercent, RSub(One, aPercent)))
    IN  [guess |-> bGuess, min |-> aPercent, max |-> One,
         digits |-> HalleyDigits, max_iter |-> {}]

solveSegment(segmentIndex, desiredLength, maxLength, aPercent) ==
    LET h == HalleyCall(desiredLength, maxLength, aPercent)
    IN  halley_iterate(segmentIndex, aPercent, desiredLength,
                       h.guess, h.min, h.max, h.digits)

\* bBegin + bPercent * (bEnd - bBegin)
globalT(bIndex, bPercent) ==
    IF bIndex \notin DOMAIN segLens THEN NaN
    ELSE RAdd(segmentT(bIndex),
              RMul(bPercent, RSub(segmentT(bIndex + 1), segmentT(bIndex))))

\* ------------------------------------------------------------------ frames
NoSolve == [segmentIndex |-> 0, desiredLength |-> Zero, maxLength |-> Zero,
            aPercent |-> Zero]

NoCall == [op |-> "none", a |-> Zero, desiredLength |-> Zero,
           lengthPerPiece |-> Zero, n |-> 0]

IdleFrame ==
    [pc |-> "idle", aIndex |-> 0, bIndex |-> 0, aPercent |-> Zero,
     bLength |-> Zero, desiredLength |-> Zero, ret |-> Zero,
     segmentLengths |-> <<>>, totalArcLength |-> Zero, lengthPerPiece |-> Zero,
     pieces |-> <<>>, segmentRemainder |-> Zero, previousPercent |-> Zero,
     i |-> 0]

\* ------------------------------------------------------------- solveLength
\* lines 47-62: locate a, measure the rest of its segment, decide on a scan
SLEnter(a, desiredLength) ==
    LET aIndex == segmentForT(a)
        aBegin == segmentT(aIndex)
        aEnd == segmentT(aIndex + 1)
        aPercent == RDiv(RSub(a, aBegin), RSub(aEnd, aBegin))
        aLength == segmentArcLength(aIndex, aPercent, One)
    IN  IF RLt(aLength, desiredLength)
        THEN [IdleFrame EXCEPT !.pc = "sl_scan", !.aIndex = aIndex,
                               !.bIndex = aIndex, !.aPercent = Zero,
                               !.bLength = aLength,
                               !.desiredLength = RSub(desiredLength, aLength)]
        ELSE [IdleFrame EXCEPT !.pc = "sl_end", !.aIndex = aIndex,
                               !.bIndex = aIndex, !.aPercent = aPercent,
                               !.bLength = aLength,
                               !.desiredLength = desiredLength]

\* SLScan with the subtraction of line 70 forgotten
SLScan_NoSubtract(f) ==
    LET bIndex == f.bIndex + 1
    IN  IF bIndex < segmentCount
        THEN LET bLength == segmentArcLength(bIndex, Zero, One)
             IN  IF RLt(bLength, f.desiredLength)
                 THEN [f EXCEPT !.bIndex = bIndex, !.bLength = bLength]
                 ELSE [f EXCEPT !.bIndex = bIndex, !.bLength = bLength,
                                !.pc = "sl_end"]
        ELSE [f EXCEPT !.bIndex = bIndex, !.pc = "sl_end"]

\* lines 64-76: one evaluation of the loop condition and, if it holds, the body
SLScan(f) ==
    LET bIndex == f.bIndex + 1
    IN  IF bIndex < segmentCount
        THEN LET bLength == segmentArcLength(bIndex, Zero, One)
             IN  IF RLt(bLength, f.desiredLength)
                 THEN [f EXCEPT !.bIndex = bIndex, !.bLength = bLength,
                                !.desiredLength = RSub(f.desiredLength, bLength)]
                 ELSE [f EXCEPT !.bIndex = bIndex, !.bLength = bLength,
                                !.pc = "sl_end"]
        ELSE [f EXCEPT !.bIndex = bIndex, !.pc = "sl_end"]

\* SLAtEnd taking the last segment for the end of the spline
SLAtEnd_OffByOne(f) == f.bIndex >= segmentCount - 1

\* line 80
SLAtEnd(f) == f.bIndex = segmentCount

\* SLClamp returning the start of the last segment instead of its end
SLClamp_LastKnot(f) == [f EXCEPT !.pc = "done", !.ret = segmentT(segmentCount - 1)]

\* lines 80-82
SLClamp(f) == [f EXCEPT !.pc = "done", !.ret = getMaxT]

\* line 85: the arguments handed to solveSegment
SLSolveArgs(f) ==
    [segmentIndex |-> f.bIndex, desiredLength |-> f.desiredLength,
     maxLength |-> f.bLength, aPercent |-> f.aPercent]

\* lines 85-89
SLSolve(f) ==
    LET args == SLSolveArgs(f)
        bPercent == solveSegment(args.segmentIndex, args.desiredLength,
                                 args.maxLength, args.aPercent)
    IN  [f EXCEPT !.pc = "done", !.ret = globalT(f.bIndex, bPercent)]

RECURSIVE SLScanAll(_)
SLScanAll(f) == IF f.pc = "sl_scan" THEN SLScanAll(SLScan(f)) ELSE f

\* the value solveLength(spline, a, desiredLength) returns
solveLength(a, desiredLength) ==
    LET f == SLScanAll(SLEnter(a, desiredLength))
    IN  IF SLAtEnd(f) THEN SLClamp(f).ret ELSE SLSolve(f).ret

\* ------------------------------------------------------------------ inputs
totalLength == LET RECURSIVE Sum(_)
                   Sum(k) == IF k = 0 THEN 0 ELSE segLens[k - 1] + Sum(k - 1)
               IN  Sum(segmentCount)

\* start parameters: Grid points in every segment, and maxT
AValues ==
    {globalT(i, Norm(k, Grid)) : i \in DOMAIN segLens, k \in 0..(Grid - 1)}
        \cup {getMaxT}

\* distances: multiples of 1/Grid from 0 to past the whole curve
DValues == {Norm(j, Grid) : j \in 0..(Grid * (totalLength + 1))}

Idle == frame.pc = "idle"

Returned == frame.pc = "done"

\* -------------------------------------------------------------------- Init
Init ==
    /\ \E count \in 1..MaxSegs :
          /\ segLens \in [0..(count - 1) -> 1..MaxSegLen]
          /\ \E style \in KnotStyles :
                knots = [i \in 0..count |->
                            LET RECURSIVE Knot(_)
                                Knot(k) == IF k = 0 THEN 0
                                           ELSE style[1 + ((k - 1) % 2)] + Knot(k - 1)
                            IN  Knot(i)]
    /\ call = NoCall
    /\ frame = IdleFrame
    /\ solveCalls = 0
    /\ lastSolve = NoSolve

\* ----------------------------------------------------- solveLength actions
CallSolveLength ==
    /\ Idle
    /\ \E a \in AValues, d \in DValues :
          /\ call' = [NoCall EXCEPT !.op = "solveLength", !.a = a,
                                    !.desiredLength = d]
          /\ frame' = SLEnter(a, d)
    /\ solveCalls' = 0
    /\ lastSolve' = NoSolve
    /\ UNCHANGED <<segLens, knots>>

SolveLengthScan ==
    /\ frame.pc = "sl_scan"
    /\ frame' = SLScan(frame)
    /\ UNCHANGED <<segLens, knots, call, solveCalls, lastSolve>>

SolveLengthClamp ==
    /\ frame.pc = "sl_end"
    /\ SLAtEnd(frame)
    /\ frame' = SLClamp(frame)
    /\ UNCHANGED <<segLens, knots, call, solveCalls, lastSolve>>

SolveLengthSolve ==
    /\ frame.pc = "sl_end"
    /\ ~SLAtEnd(frame)
    /\ frame' = SLSolve(frame)
    /\ solveCalls' = solveCalls + 1
    /\ lastSolve' = SLSolveArgs(frame)
    /\ UNCHANGED <<segLens, knots, call>>

\* ------------------------------------------- partition and partitionN
\* lines 101-108 (163-170): the per-segment length table
SegmentLengthTable ==
    [k \in 0..(segmentCount - 1) |-> segmentArcLength(k, Zero, One)]

\* lines 102-106 (164-168): the running total of the table
TableTotal(table) ==
    LET RECURSIVE Sum(_)
        Sum(k) == IF k = 0 THEN Zero ELSE RAdd(Sum(k - 1), table[k - 1])
    IN  Sum(segmentCount)

\* PEnter with the "+ 1" of line 110 forgotten
PEnter_NoPlusOne(lengthPerPiece) ==
    LET table == SegmentLengthTable
        total == TableTotal(table)
        size == Trunc(RDiv(total, lengthPerPiece))
    IN  [IdleFrame EXCEPT !.pc = "p_for", !.segmentLengths = table,
                          !.totalArcLength = total,
                          !.lengthPerPiece = lengthPerPiece,
                          !.pieces = [k \in 0..(size - 1) |-> Zero],
                          !.segmentRemainder = table[0],
                          !.previousPercent = Zero, !.aIndex = 0, !.i = 1]

\* lines 101-114: the table, the result vector (value-initialised, so
\* pieces[0] is 0) and the inter-piece state
PEnter(lengthPerPiece) ==
    LET table == SegmentLengthTable
        total == TableTotal(table)
        size == Trunc(RDiv(total, lengthPerPiece)) + 1
    IN  [IdleFrame EXCEPT !.pc = "p_for", !.segmentLengths = table,
                          !.totalArcLength = total,
                          !.lengthPerPiece = lengthPerPiece,
                          !.pieces = [k \in 0..(size - 1) |-> Zero],
                          !.segmentRemainder = table[0],
                          !.previousPercent = Zero, !.aIndex = 0, !.i = 1]

\* lines 163-181: as PEnter with lengthPerPiece = totalArcLength / n and a
\* result vector of n + 1 entries whose first and last are fixed
PNEnter(n) ==
    LET table == SegmentLengthTable
        total == TableTotal(table)
    IN  [IdleFrame EXCEPT !.pc = "pn_for", !.segmentLengths = table,
                          !.totalArcLength = total,
                          !.lengthPerPiece = RDiv(total, FromInt(n)),
                          !.pieces = [[k \in 0..n |-> Zero] EXCEPT ![n] = getMaxT],
                          !.segmentRemainder = table[0],
                          !.previousPercent = Zero, !.aIndex = 0, !.i = 1]

\* lines 118-122 and 153: the head of the for loop of partition
PFor(f) ==
    IF f.i < Cardinality(DOMAIN f.pieces)
    THEN [f EXCEPT !.pc = "p_while", !.bIndex = f.aIndex,
                   !.desiredLength = f.lengthPerPiece]
    ELSE [f EXCEPT !.pc = "done"]

\* lines 184-188 and 220: the head of the for loop of partitionN
PNFor(f) ==
    IF f.i < call.n
    THEN [f EXCEPT !.pc = "pn_while", !.bIndex = f.aIndex,
                   !.desiredLength = f.lengthPerPiece]
    ELSE [f EXCEPT !.pc = "done"]

\* ScanCondition with <= for <
ScanCondition_Le(f) == RLe(f.segmentRemainder, f.desiredLength)

\* lines 125 (191): the condition of the inner while loop
ScanCondition(f) == RLt(f.segmentRemainder, f.desiredLength)

\* lines 127-128 (193-194): the body of the inner while loop; the read
\* segmentLengths[++bIndex] is valid only inside the table
ScanInRange(f) == (f.bIndex + 1) \in DOMAIN f.segmentLengths

\* ScanBody reading the table without advancing bIndex
ScanBody_NoAdvance(f) ==
    [f EXCEPT !.desiredLength = RSub(f.desiredLength, f.segmentRemainder),
              !.segmentRemainder = f.segmentLengths[f.bIndex]]

ScanBody(f) ==
    [f EXCEPT !.desiredLength = RSub(f.desiredLength, f.segmentRemainder),
              !.bIndex = f.bIndex + 1,
              !.segmentRemainder = f.segmentLengths[f.bIndex + 1]]

\* PieceAPercent forgetting the fraction carried over from the last piece
PieceAPercent_AlwaysZero(f) == Zero

\* lines 131-139 (197-205)
PieceAPercent(f) == IF f.aIndex = f.bIndex THEN f.previousPercent ELSE Zero

\* line 142 (208): the arguments handed to solveSegment
PieceSolveArgs(f) ==
    [segmentIndex |-> f.bIndex, desiredLength |-> f.desiredLength,
     maxLength |-> f.segmentRemainder, aPercent |-> PieceAPercent(f)]

\* PieceSolve with the update of segmentRemainder (line 150) forgotten
PieceSolve_KeepRemainder(f, forPc) ==
    LET args == PieceSolveArgs(f)
        bPercent == solveSegment(args.segmentIndex, args.desiredLength,
                                 args.maxLength, args.aPercent)
    IN  [f EXCEPT !.pc = forPc, !.aPercent = args.aPercent,
                  !.pieces = [f.pieces EXCEPT ![f.i] = globalT(f.bIndex, bPercent)],
                  !.previousPercent = bPercent,
                  !.aIndex = f.bIndex, !.i = f.i + 1]

\* lines 131-151 (197-218): solve the boundary, store it, set up the next piece
PieceSolve(f, forPc) ==
    LET args == PieceSolveArgs(f)
        bPercent == solveSegment(args.segmentIndex, args.desiredLength,
                                 args.maxLength, args.aPercent)
    IN  [f EXCEPT !.pc = forPc, !.aPercent = args.aPercent,
                  !.pieces = [f.pieces EXCEPT ![f.i] = globalT(f.bIndex, bPercent)],
                  !.previousPercent = bPercent,
                  !.segmentRemainder = RSub(f.segmentRemainder, f.desiredLength),
                  !.aIndex = f.bIndex, !.i = f.i + 1]

\* piece lengths: multiples of 1/Grid, from 1/Grid to past the whole curve
LValues == {Norm(j, Grid) : j \in 1..(Grid * (totalLength + 1))}

CallPartition ==
    /\ Idle
    /\ \E L \in LValues :
          /\ call' = [NoCall EXCEPT !.op = "partition", !.lengthPerPiece = L]
          /\ frame' = PEnter(L)
    /\ solveCalls' = 0
    /\ lastSolve' = NoSolve
    /\ UNCHANGED <<segLens, knots>>

PartitionFor ==
    /\ frame.pc = "p_for"
    /\ frame' = PFor(frame)
    /\ UNCHANGED <<segLens, knots, call, solveCalls, lastSolve>>

\* an out-of-range read of the table is undefined behaviour: the call's
\* behaviour from there on is not modelled (pc = "ub")
PartitionScan ==
    /\ frame.pc = "p_while"
    /\ frame' = IF ~ScanCondition(frame) THEN [frame EXCEPT !.pc = "p_solve"]
                ELSE IF ScanInRange(frame) THEN ScanBody(frame)
                ELSE [frame EXCEPT !.pc = "ub", !.bIndex = frame.bIndex + 1]
    /\ UNCHANGED <<segLens, knots, call, solveCalls, lastSolve>>

PartitionSolve ==
    /\ frame.pc = "p_solve"
    /\ frame' = PieceSolve(frame, "p_for")
    /\ solveCalls' = solveCalls + 1
    /\ lastSolve' = PieceSolveArgs(frame)
    /\ UNCHANGED <<segLens, knots, call>>

CallPartitionN ==
    /\ Idle
    /\ \E n \in 1..MaxN :
          /\ call' = [NoCall EXCEPT !.op = "partitionN", !.n = n]
          /\ frame' = PNEnter(n)
    /\ solveCalls' = 0
    /\ lastSolve' = NoSolve
    /\ UNCHANGED <<segLens, knots>>

PartitionNFor ==
    /\ frame.pc = "pn_for"
    /\ frame' = PNFor(frame)
    /\ UNCHANGED <<segLens, knots, call, solveCalls, lastSolve>>

PartitionNScan ==
    /\ frame.pc = "pn_while"
    /\ frame' = IF ~ScanCondition(frame) THEN [frame EXCEPT !.pc = "pn_solve"]
                ELSE IF ScanInRange(frame) THEN ScanBody(frame)
                ELSE [frame EXCEPT !.pc = "ub", !.bIndex = frame.bIndex + 1]
    /\ UNCHANGED <<segLens, knots, call, solveCalls, lastSolve>>

PartitionNSolve ==
    /\ frame.pc = "pn_solve"
    /\ frame' = PieceSolve(frame, "pn_for")
    /\ solveCalls' = solveCalls + 1
    /\ lastSolve' = PieceSolveArgs(frame)
    /\ UNCHANGED <<segLens, knots, call>>

\* the caller takes the returned value; the call's locals are gone
Return ==
    /\ Returned
    /\ call' = NoCall
    /\ frame' = IdleFrame
    /\ solveCalls' = 0
    /\ lastSolve' = NoSolve
    /\ UNCHANGED <<segLens, knots>>

Next ==
    \/ CallSolveLength
    \/ SolveLengthScan
    \/ SolveLengthClamp
    \/ SolveLengthSolve
    \/ CallPartition
    \/ PartitionFor
    \/ PartitionScan
    \/ PartitionSolve
    \/ CallPartitionN
    \/ PartitionNFor
    \/ PartitionNScan
    \/ PartitionNSolve
    \/ Return

Spec == Init /\ [][Next]_vars

\* ------------------------------------------------ arc length of the curve
\* arc length of the curve from parameter 0 to parameter t
cumulativeLength(t) ==
    LET i == segmentForT(t)
        percent == RDiv(RSub(t, segmentT(i)), RSub(segmentT(i + 1), segmentT(i)))
        RECURSIVE Before(_)
        Before(k) == IF k = 0 THEN Zero
                     ELSE RAdd(Before(k - 1), segmentArcLength(k - 1, Zero, One))
    IN  RAdd(Before(i), segmentArcLength(i, Zero, percent))

\* arc length of the curve between parameters a and b
arcLength(a, b) == RSub(cumulativeLength(b), cumulativeLength(a))

\* arc length from a to the end of the curve
remainingLength(a) == arcLength(a, getMaxT)

SolveLengthDone == call.op = "solveLength" /\ Returned
PartitionDone == call.op = "partition" /\ Returned
PartitionNDone == call.op = "partitionN" /\ Returned
InPartition == frame.pc \in {"p_for", "p_while", "p_solve",
                             "pn_for", "pn_while", "pn_solve"}

\* ------------------------------------------------------------------ claims

C2_Saturation ==
    (SolveLengthDone /\ RLt(remainingLength(call.a), call.desiredLength))
        => (frame.ret = getMaxT /\ solveCalls = 0)

\* C2 witness: a saturated query that started in the first segment of a curve
\* of several segments, strictly inside the segment
C2_SaturationWitness ==
    /\ SolveLengthDone
    /\ RLt(remainingLength(call.a), call.desiredLength)
    /\ segmentCount >= 2
    /\ frame.aIndex = 0
    /\ RLt(Zero, call.a)
    /\ frame.ret = getMaxT

\* C3: whenever partitionN(n) has returned, the result has exactly n + 1
\* entries, entry 0 is 0, entry n is getMaxT, the entries are strictly
\* increasing and the arc length between consecutive entries is
\* totalArcLength / n.
C3_PartitionN ==
    PartitionNDone =>
        /\ DOMAIN frame.pieces = 0..call.n
        /\ frame.pieces[0] = Zero
        /\ frame.pieces[call.n] = getMaxT
        /\ \A k \in 1..call.n :
              /\ RLt(frame.pieces[k - 1], frame.pieces[k])
              /\ REq(arcLength(frame.pieces[k - 1], frame.pieces[k]),
                     RDiv(FromInt(totalLength), FromInt(call.n)))

\* C3 witness: a returned partitionN with at least three pieces on a curve of
\* several segments of different lengths
C3_PartitionNWitness ==
    /\ PartitionNDone
    /\ call.n >= 3
    /\ segmentCount >= 2
    /\ segLens[0] # segLens[1]
    /\ solveCalls = call.n - 1

\* C4: whenever partition(L) has returned, the result has exactly
\* floor(totalArcLength / L) + 1 entries, entry 0 is 0, and the arc length
\* between consecutive entries is L (entry k lies at arc length k * L).
C4_Partition ==
    PartitionDone =>
        LET L == call.lengthPerPiece
            size == ((totalLength * L[2]) \div L[1]) + 1
        IN  /\ DOMAIN frame.pieces = 0..(size - 1)
            /\ frame.pieces[0] = Zero
            /\ \A k \in 1..(size - 1) :
                  /\ REq(arcLength(frame.pieces[k - 1], frame.pieces[k]), L)
                  /\ REq(cumulativeLength(frame.pieces[k]), RMul(FromInt(k), L))
            /\ RLt(arcLength(frame.pieces[size - 1], getMaxT), L)

\* C4 witness: a returned partition with several pieces, a piece that spans a
\* segment boundary and a non-empty remainder
C4_PartitionWitness ==
    /\ PartitionDone
    /\ Cardinality(DOMAIN frame.pieces) >= 3
    /\ segmentCount >= 2
    /\ \E k \in 1..(Cardinality(DOMAIN frame.pieces) - 1) :
          /\ RLt(frame.pieces[k - 1], segmentT(1))
          /\ RLt(segmentT(1), frame.pieces[k])
    /\ RLt(frame.pieces[Cardinality(DOMAIN frame.pieces) - 1], getMaxT)

\* C5: whenever solveLength(a, d1) has returned, its value is at most
\* solveLength(a, d2) for every distance d2 >= d1.
C5_Monotonic ==
    SolveLengthDone =>
        \A d2 \in DValues :
            RLe(call.desiredLength, d2)
                => RLe(frame.ret, solveLength(call.a, d2))

C7_SolverInputs ==
    (call.op = "solveLength" /\ solveCalls > 0) =>
        /\ RLe(Zero, lastSolve.aPercent)
        /\ RLe(lastSolve.aPercent, One)
        /\ RLt(Zero, lastSolve.desiredLength)
        /\ RLe(lastSolve.desiredLength, lastSolve.maxLength)

\* C8: in partition and partitionN, at the head of every outer-loop iteration
\* segmentRemainder is the arc length of segment aIndex from previousPercent
\* to 1; at every solveSegment call maxLength is the arc length of the
\* segment from aPercent to 1 and 0 < desiredLength <= maxLength.
C8_CarryOver ==
    /\ frame.pc \in {"p_for", "pn_for"} =>
          frame.segmentRemainder =
              segmentArcLength(frame.aIndex, frame.previousPercent, One)
    /\ (call.op \in {"partition", "partitionN"} /\ solveCalls > 0) =>
          /\ lastSolve.maxLength =
                segmentArcLength(lastSolve.segmentIndex, lastSolve.aPercent, One)
          /\ RLt(Zero, lastSolve.desiredLength)
          /\ RLe(lastSolve.desiredLength, lastSolve.maxLength)

\* C8 witness: a later piece that resumes inside a segment: the solver was
\* called from a local fraction strictly between 0 and 1 with less than the
\* whole segment left
C8_CarryOverWitness ==
    /\ frame.pc \in {"p_for", "pn_for"}
    /\ solveCalls >= 2
    /\ RLt(Zero, lastSolve.aPercent)
    /\ RLt(Zero, frame.segmentRemainder)
    /\ frame.aIndex >= 1

\* C9 (as stated): every returned solveLength call has called solveSegment
\* exactly once.
C9_ExactlyOneSolve ==
    SolveLengthDone => solveCalls = 1

\* C9 (amended): solveLength calls solveSegment at most once and only after
\* the scan; a returned call has made exactly one call when the distance is at
\* most the arc length remaining from a, and none when it is greater (the
\* result is then getMaxT).
C9_OneSolveUnlessSaturated ==
    /\ (call.op = "solveLength" /\ ~Returned) => solveCalls = 0
    /\ SolveLengthDone =>
          solveCalls = IF RLt(remainingLength(call.a), call.desiredLength)
                       THEN 0 ELSE 1

\* C9 witness: a returned query that scanned past a segment and then called
\* the solver once
C9_OneSolveWitness ==
    /\ SolveLengthDone
    /\ frame.bIndex >= frame.aIndex + 2
    /\ solveCalls = 1

\* steps a running call can still take, at most: three per piece still to
\* cut (loop head, end of scan, solve), one per segment still to scan over,
\* and the position inside the current piece
StepsLeft ==
    LET limit == IF call.op = "partitionN" THEN call.n
                 ELSE Cardinality(DOMAIN frame.pieces)
        pc == frame.pc
    IN  IF pc = "sl_scan" THEN 2 + (segmentCount - frame.bIndex)
        ELSE IF pc = "sl_end" THEN 1
        ELSE IF pc \in {"p_for", "pn_for"}
            THEN 3 * (limit - frame.i) + 3 + (segmentCount - 1 - frame.aIndex)
        ELSE IF pc \in {"p_while", "pn_while"}
            THEN 3 * (limit - frame.i) + 2 + (segmentCount - 1 - frame.bIndex)
        ELSE IF pc \in {"p_solve", "pn_solve"}
            THEN 3 * (limit - frame.i) + 1 + (segmentCount - 1 - frame.bIndex)
        ELSE 0

Running == frame.pc \notin {"idle", "done"}

\* the engine part of C10: a running call is never stuck, each of its steps
\* lowers the natural number StepsLeft, every iteration of a scan loop
\* advances the segment index by one, and the index never passes the segment
\* count (a call visits each segment at most once)
EngineTerminates ==
    /\ [](frame.pc # "ub")
    /\ [](Running => StepsLeft > 0)
    /\ [](frame.bIndex <= segmentCount)
    /\ [][Running => StepsLeft' < StepsLeft]_vars
    /\ [][(\/ frame.pc = "sl_scan"
           \/ (frame.pc = "p_while" /\ frame'.pc = "p_while")
           \/ (frame.pc = "pn_while" /\ frame'.pc = "pn_while"))
            => frame'.bIndex = frame.bIndex + 1]_vars

\* the halley_iterate call made by the most recent solveSegment call
LastHalleyCall ==
    HalleyCall(lastSolve.desiredLength, lastSolve.maxLength, lastSolve.aPercent)

====
